---- MODULE Spec2Model ----
(***************************************************************************)
(* Model of sonic_platform/chassis.py for the Accton AS9817-64O: the       *)
(* Chassis facade, its fixed-length collections, the transceiver accessor, *)
(* the reboot-cause resolution and the status-LED get/set pair.            *)
(*                                                                         *)
(* Python values that a method can return are records [type, val]; the     *)
(* type field is the Python type name, so that None, str, bool, tuple and  *)
(* Sfp objects can be told apart.  A raised exception is a value of type   *)
(* "raise".                                                                *)
(***************************************************************************)
EXTENDS Integers, Sequences, FiniteSets, TLC

(* ---------------------------- bounds ----------------------------------- *)
\* get_sfp is called with indices in -(NUM_PORT+IndexSlack) .. NUM_PORT+IndexSlack
IndexSlack == 1

(* ------------------------ module constants ----------------------------- *)
NUM_FAN_TRAY == 4
NUM_PSU == 2
NUM_THERMAL == 13
NUM_PORT == 66
NUM_COMPONENT == 5

HOST_REBOOT_CAUSE_PATH == "/host/reboot-cause/"
PMON_REBOOT_CAUSE_PATH == "/usr/share/sonic/platform/api_files/reboot-cause/"
REBOOT_CAUSE_FILE == "reboot-cause.txt"
PREV_REBOOT_CAUSE_FILE == "previous-reboot-cause.txt"
SYSLED_FNODE == "/sys/devices/platform/as9817_64_led/led_alarm"

\* the dict SYSLED_MODES, in insertion order: a sequence of <<key, value>>
SYSLED_MODES == << <<"0", "STATUS_LED_COLOR_OFF">>, <<"10", "STATUS_LED_COLOR_RED">> >>

\* self.REBOOT_CAUSE_NON_HARDWARE, the only cause constant the method uses
REBOOT_CAUSE_NON_HARDWARE == "REBOOT_CAUSE_NON_HARDWARE"

\* the predefined reboot-cause constants the docstring of get_reboot_cause names
REBOOT_CAUSES ==
    { "REBOOT_CAUSE_POWER_LOSS", "REBOOT_CAUSE_THERMAL_OVERLOAD_CPU",
      "REBOOT_CAUSE_THERMAL_OVERLOAD_ASIC", "REBOOT_CAUSE_THERMAL_OVERLOAD_OTHER",
      "REBOOT_CAUSE_INSUFFICIENT_FAN_SPEED", "REBOOT_CAUSE_WATCHDOG",
      "REBOOT_CAUSE_HARDWARE_OTHER", "REBOOT_CAUSE_NON_HARDWARE" }

(* ------------------------- Python values ------------------------------- *)
None == [type |-> "NoneType", val |-> "None"]
Str(s) == [type |-> "str", val |-> s]
Bool(b) == [type |-> "bool", val |-> b]
Tuple(t) == [type |-> "tuple", val |-> t]
Obj(cls, o) == [type |-> cls, val |-> o]
Raise(exc) == [type |-> "raise", val |-> exc]

\* Python's "a or b" for a str-or-None left operand: None and "" are falsy
Or(a, b) == IF a.type = "NoneType" \/ (a.type = "str" /\ a.val = "") THEN b ELSE a

\* list.__getitem__ with an int: negative subscripts count from the end,
\* anything outside -len .. len-1 raises IndexError
ListGetItem(list, k) ==
    LET n == Len(list)
        j == IF k < 0 THEN k + n ELSE k
    IN  IF 0 <= j /\ j < n THEN [raised |-> FALSE, item |-> list[j + 1]]
        ELSE [raised |-> TRUE, item |-> list]

\* dict.get(key, default) on a dict modelled as a function
DictGet(d, key, default) == IF key \in DOMAIN d THEN d[key] ELSE default

(* --------------------------- text files -------------------------------- *)
\* a text file as the helper sees it: "missing" (cannot be opened at all),
\* "ro" (can be read, a write fails) or "rw", and its content
File(m, d) == [mode |-> m, data |-> d]

\* APIHelper.read_txt_file: the content, or None when the file cannot be read
read_txt_file(file) == IF file.mode # "missing" THEN Str(file.data) ELSE None

\* APIHelper.write_txt_file: the file after the call and the boolean returned
write_txt_file(file, value) ==
    IF file.mode = "rw" THEN [file |-> [file EXCEPT !.data = value], ok |-> TRUE]
    ELSE [file |-> file, ok |-> FALSE]

(* ------------------------------ state ---------------------------------- *)
VARIABLES
    is_host,                 \* self.is_host
    _fan_drawer_list,        \* the collections of ChassisBase
    _fan_list,
    _psu_list,
    _thermal_list,
    _component_list,
    _sfp_list,
    _sfpevent,               \* the SfpEvent notifier, None before it is made
    sfp_module_initialized,
    _eeprom,
    sysled,                  \* the text file at SYSLED_FNODE
    writes,                  \* the write_txt_file calls the last call issued: <<path, value>>
    stderr,                  \* the lines the last call wrote to sys.stderr
    led_set,                 \* colour of the last set_status_led that returned True, "" if none
    op, arg, ret,            \* the last public call, its argument(s), its result
    branch                   \* arm of the if/elif the last call ran, "none" if it ran neither

self == << is_host, _fan_drawer_list, _fan_list, _psu_list, _thermal_list,
           _component_list, _sfp_list, _sfpevent, sfp_module_initialized, _eeprom >>
vars == << is_host, _fan_drawer_list, _fan_list, _psu_list, _thermal_list,
           _component_list, _sfp_list, _sfpevent, sfp_module_initialized, _eeprom,
           sysled, writes, stderr, led_set, op, arg, ret, branch >>

(* --------------------------- construction ------------------------------ *)
\* the collaborators, as far as the chassis sees them
Sfp(index, name) == [index |-> index, name |-> name]
Psu(index) == [psu_index |-> index]
Thermal(index) == [thermal_index |-> index]
Component(index) == [component_index |-> index]
\* a drawer brings its own fans (two per drawer here)
FanDrawer(fant_index) ==
    [fantray_index |-> fant_index,
     _fan_list |-> [f \in 1..2 |-> [fan_tray_index |-> fant_index, fan_index |-> f - 1]]]
SfpEvent(list_ref, serial) == [sfp_list |-> list_ref, serial |-> serial]
Tlv == [model |-> "model", mac |-> "mac", pn |-> "pn", serial |-> "serial",
        revision |-> "revision", eeprom |-> "eeprom"]

\* range(n) as the sequence 0, 1, ..., n-1
range(n) == [i \in 1..n |-> i - 1]

RECURSIVE Flatten(_)
Flatten(ss) == IF ss = <<>> THEN <<>> ELSE Head(ss) \o Flatten(Tail(ss))

\* __initialize_sfp: appends one Sfp per port to the list, makes a notifier
\* on the list and sets the flag.  ev_made counts the notifiers made so far.
SfpFlagNotSet == FALSE
SfpFlagAfterInit == TRUE
SfpIndices == range(NUM_PORT)
initialize_sfp(list, intf_name, ev_made) ==
    [ _sfp_list |-> list \o [k \in 1..Len(SfpIndices) |->
                               Sfp(SfpIndices[k], DictGet(intf_name, SfpIndices[k] + 1, "Unknown"))],
      _sfpevent |-> Obj("SfpEvent", SfpEvent("self._sfp_list", ev_made + 1)),
      sfp_module_initialized |-> SfpFlagAfterInit ]

\* __initialize_fan: one drawer per tray, and the drawers' fans concatenated
initialize_fan ==
    LET drawers == [k \in 1..NUM_FAN_TRAY |-> FanDrawer(range(NUM_FAN_TRAY)[k])]
    IN  [ _fan_drawer_list |-> drawers,
          _fan_list |-> Flatten([k \in 1..NUM_FAN_TRAY |-> drawers[k]._fan_list]) ]

initialize_psu == [k \in 1..NUM_PSU |-> Psu(range(NUM_PSU)[k])]
initialize_thermals == [k \in 1..NUM_THERMAL |-> Thermal(range(NUM_THERMAL)[k])]
initialize_components == [k \in 1..NUM_COMPONENT |-> Component(range(NUM_COMPONENT)[k])]

\* what APIHelper.get_intf_name returns: a name for each of the 64
\* front-panel ports, none for the two management-side ports
get_intf_name == [p \in 1..64 |-> "Ethernet" \o ToString((p - 1) * 8)]

\* the LED node as the chassis finds it: absent (the driver is not loaded),
\* or present, read-only or not, with one of the raw values the driver shows
LedRaw == { "0", "10", "16", "" }
LedModes == { "missing", "ro", "rw" }

NoCall == "__init__"

\* the state after Chassis() returned
Init ==
    /\ is_host \in BOOLEAN
    /\ _fan_drawer_list = initialize_fan._fan_drawer_list
    /\ _fan_list = initialize_fan._fan_list
    /\ _psu_list = initialize_psu
    /\ _thermal_list = initialize_thermals
    /\ _component_list = initialize_components
    /\ LET s == initialize_sfp(<<>>, get_intf_name, 0)
       IN  /\ _sfp_list = s._sfp_list
           /\ _sfpevent = s._sfpevent
           /\ sfp_module_initialized = s.sfp_module_initialized
    /\ _eeprom = Tlv
    /\ \E m \in LedModes, d \in LedRaw : sysled = File(m, IF m = "missing" THEN "" ELSE d)
    /\ writes = <<>>
    /\ stderr = <<>>
    /\ led_set = ""
    /\ op = NoCall
    /\ arg = None
    /\ ret = None
    /\ branch = "none"

\* a call that writes nothing and runs no arm of get_reboot_cause
Quiet == writes' = <<>> /\ stderr' = <<>> /\ branch' = "none"
Returns(o, a, r) == op' = o /\ arg' = a /\ ret' = r

(* ----------------------------- get_sfp --------------------------------- *)
\* the guard "if not self.sfp_module_initialized"
NeedsSfpInitInverted(flag) == flag
NeedsSfpInit(flag) == ~flag

\* the subscript of self._sfp_list[index-1]
SfpSubscriptRaw(index) == index
SfpSubscript(index) == index - 1

Indices == -(NUM_PORT + IndexSlack) .. (NUM_PORT + IndexSlack)

OutOfRangeMsg(index, list) == << "SFP index ", index, " out of range (1-", Len(list), ")\n" >>

get_sfp(index) ==
    LET s == IF NeedsSfpInit(sfp_module_initialized)
             THEN initialize_sfp(_sfp_list, get_intf_name, _sfpevent.val.serial)
             ELSE [ _sfp_list |-> _sfp_list, _sfpevent |-> _sfpevent,
                    sfp_module_initialized |-> sfp_module_initialized ]
        got == ListGetItem(s._sfp_list, SfpSubscript(index))
    IN  /\ _sfp_list' = s._sfp_list
        /\ _sfpevent' = s._sfpevent
        /\ sfp_module_initialized' = s.sfp_module_initialized
        /\ stderr' = IF got.raised THEN << OutOfRangeMsg(index, s._sfp_list) >> ELSE <<>>
        /\ writes' = <<>>
        /\ branch' = "none"
        /\ Returns("get_sfp", index, IF got.raised THEN None ELSE Obj("Sfp", got.item))
        /\ UNCHANGED << is_host, _fan_drawer_list, _fan_list, _psu_list, _thermal_list,
                        _component_list, _eeprom, sysled, led_set >>

(* ------------------------- get_change_event ---------------------------- *)
\* SfpEvent.get_sfp_event(timeout) is the polling subsystem's: it answers
\* (status, {'sfp': {port: state}}) and the chassis hands the answer on
get_change_event(timeout) ==
    LET s == IF NeedsSfpInit(sfp_module_initialized)
             THEN initialize_sfp(_sfp_list, get_intf_name, _sfpevent.val.serial)
             ELSE [ _sfp_list |-> _sfp_list, _sfpevent |-> _sfpevent,
                    sfp_module_initialized |-> sfp_module_initialized ]
    IN  /\ _sfp_list' = s._sfp_list
        /\ _sfpevent' = s._sfpevent
        /\ sfp_module_initialized' = s.sfp_module_initialized
        /\ \E status \in BOOLEAN, changed \in { {}, {1} } :
              Returns("get_change_event", timeout,
                      Tuple(<< status, [notifier |-> s._sfpevent.val.serial, sfp |-> changed] >>))
        /\ Quiet
        /\ UNCHANGED << is_host, _fan_drawer_list, _fan_list, _psu_list, _thermal_list,
                        _component_list, _eeprom, sysled, led_set >>

(* ------------------------- get_reboot_cause ---------------------------- *)
\* the two paths the method reads, by self.is_host
reboot_cause_path(host) ==
    IF host THEN HOST_REBOOT_CAUSE_PATH \o REBOOT_CAUSE_FILE
    ELSE PMON_REBOOT_CAUSE_PATH \o REBOOT_CAUSE_FILE
prev_reboot_cause_path(host) ==
    IF host THEN HOST_REBOOT_CAUSE_PATH \o PREV_REBOOT_CAUSE_FILE
    ELSE PMON_REBOOT_CAUSE_PATH \o PREV_REBOOT_CAUSE_FILE

\* read_txt_file(path) or "Unknown"
ReadCause(file) == Or(read_txt_file(file), Str("Unknown")).val

\* the condition of the elif at line 182
ElifCondOnCause(prev_path, prev_sw_reboot_cause) == prev_sw_reboot_cause # "Unknown"
ElifCond(prev_path, prev_sw_reboot_cause) == prev_path # "Unknown"

\* the assignments of the first arm
IfArmFreeForm(sw_reboot_cause) ==
    [ branch |-> "if", reboot_cause |-> Str(sw_reboot_cause),
      description |-> Str(sw_reboot_cause) ]
IfArm(sw_reboot_cause) ==
    [ branch |-> "if", reboot_cause |-> Str(REBOOT_CAUSE_NON_HARDWARE),
      description |-> Str(sw_reboot_cause) ]

\* the locals at the return statement; reboot_cause is assigned in the two
\* arms only, so it is unbound when neither runs
RebootCauseLocals(host, fs) ==
    LET sw_reboot_cause == ReadCause(fs[reboot_cause_path(host)])
        prev_sw_reboot_cause == ReadCause(fs[prev_reboot_cause_path(host)])
    IN  IF sw_reboot_cause # "Unknown" THEN IfArm(sw_reboot_cause)
        ELSE IF ElifCond(prev_reboot_cause_path(host), prev_sw_reboot_cause)
        THEN [ branch |-> "elif", reboot_cause |-> Str(REBOOT_CAUSE_NON_HARDWARE),
               description |-> Str(prev_sw_reboot_cause) ]
        ELSE [ branch |-> "none", reboot_cause |-> Raise("UnboundLocalError"),
               description |-> Str("None") ]

\* the files of the two reboot-cause directories as a call finds them: the
\* directory of the other environment is absent, or holds causes of its own
CauseFiles == { File("missing", ""), File("ro", ""), File("ro", "Unknown"),
                File("ro", "User issued 'reboot' command") }
OtherFiles == { File("missing", ""), File("ro", "Kernel Panic") }
RebootFs(host) ==
    { (reboot_cause_path(host) :> cur) @@ (prev_reboot_cause_path(host) :> prev) @@
      (reboot_cause_path(~host) :> other) @@ (prev_reboot_cause_path(~host) :> other) :
        cur \in CauseFiles, prev \in CauseFiles, other \in OtherFiles }

get_reboot_cause(fs) ==
    LET l == RebootCauseLocals(is_host, fs)
    IN  /\ op' = "get_reboot_cause"
        /\ arg' = fs
        /\ ret' = IF l.reboot_cause.type = "raise" THEN l.reboot_cause
                  ELSE Tuple(<< l.reboot_cause, l.description >>)
        /\ branch' = l.branch
        /\ writes' = <<>>
        /\ stderr' = <<>>
        /\ UNCHANGED << self, sysled, led_set >>

(* ---------------------------- status LED ------------------------------- *)
\* "val in SYSLED_MODES" and SYSLED_MODES[val], for a str-or-None val
InModes(v) == v.type = "str" /\ \E i \in 1..Len(SYSLED_MODES) : SYSLED_MODES[i][1] = v.val
ModeColor(v) == SYSLED_MODES[CHOOSE i \in 1..Len(SYSLED_MODES) : SYSLED_MODES[i][1] = v.val][2]

\* the value get_status_led returns for a node
StatusLedNoDefault(node) ==
    LET val == read_txt_file(node)
    IN  IF InModes(val) THEN Str(ModeColor(val)) ELSE Raise("KeyError")
StatusLed(node) ==
    LET val == read_txt_file(node)
    IN  IF InModes(val) THEN Str(ModeColor(val)) ELSE Str("UNKNOWN")

get_status_led ==
    /\ Returns("get_status_led", None, StatusLed(sysled))
    /\ Quiet
    /\ UNCHANGED << self, sysled, led_set >>

\* the loop of set_status_led: the key of the first item whose value is the
\* colour, None when the loop ends without one
ModeKeyIsColor(i) == SYSLED_MODES[i][2]
ModeKey(i) == SYSLED_MODES[i][1]
ModeOfDefaultOff(color) ==
    LET hits == { i \in 1..Len(SYSLED_MODES) : SYSLED_MODES[i][2] = color }
    IN  IF hits = {} THEN Str("0")
        ELSE Str(ModeKey(CHOOSE i \in hits : \A j \in hits : i <= j))
ModeOf(color) ==
    LET hits == { i \in 1..Len(SYSLED_MODES) : SYSLED_MODES[i][2] = color }
    IN  IF hits = {} THEN None
        ELSE Str(ModeKey(CHOOSE i \in hits : \A j \in hits : i <= j))

\* the colours callers pass: the two of SYSLED_MODES, other colour names
\* and colour values of the platform API, a raw mode key
Colors == { "STATUS_LED_COLOR_OFF", "STATUS_LED_COLOR_RED", "STATUS_LED_COLOR_GREEN",
            "STATUS_LED_COLOR_AMBER", "off", "red", "green", "10" }

set_status_led(color) ==
    LET mode == ModeOf(color)
        w == write_txt_file(sysled, mode.val)
    IN  IF mode.type = "NoneType"
        THEN /\ Returns("set_status_led", color, Bool(FALSE))
             /\ Quiet
             /\ UNCHANGED << self, sysled, led_set >>
        ELSE /\ sysled' = w.file
             /\ writes' = << << SYSLED_FNODE, mode.val >> >>
             /\ stderr' = <<>>
             /\ branch' = "none"
             /\ led_set' = IF w.ok THEN color ELSE led_set
             /\ Returns("set_status_led", color, Bool(w.ok))
             /\ UNCHANGED self

(* ------------------------ the other accessors -------------------------- *)
Pure(o, a, r) ==
    /\ Returns(o, a, r)
    /\ Quiet
    /\ UNCHANGED << self, sysled, led_set >>

get_name == Pure("get_name", None, Str(_eeprom.model))
get_presence == Pure("get_presence", None, Bool(TRUE))
get_status == Pure("get_status", None, Bool(TRUE))
get_base_mac == Pure("get_base_mac", None, Str(_eeprom.mac))
get_model == Pure("get_model", None, Str(_eeprom.pn))
get_serial == Pure("get_serial", None, Str(_eeprom.serial))
get_revision == Pure("get_revision", None, Str(_eeprom.revision))
get_system_eeprom_info == Pure("get_system_eeprom_info", None, Str(_eeprom.eeprom))
get_position_in_parent == Pure("get_position_in_parent", None, [type |-> "int", val |-> -1])
is_replaceable == Pure("is_replaceable", None, Bool(FALSE))
initizalize_system_led == Pure("initizalize_system_led", None, Bool(TRUE))

\* the bit masks are sets of the SfpBase bit names
get_port_or_cage_type(index) ==
    Pure("get_port_or_cage_type", index,
         IF index \in 1..64
         THEN [type |-> "int", val |-> { "QSFP", "QSFP_PLUS", "QSFP28", "QSFPDD", "OSFP" }]
         ELSE [type |-> "int", val |-> { "SFP", "SFP_PLUS", "SFP28" }])

(* -------------------------- specifications ----------------------------- *)
Timeouts == { 0, 1000 }
CageIndices == { 1, 64, 65, 66 }

SfpCalls ==
    \/ \E index \in Indices : get_sfp(index)
    \/ \E timeout \in Timeouts : get_change_event(timeout)

RebootCalls == \E fs \in RebootFs(is_host) : get_reboot_cause(fs)

LedCalls ==
    \/ get_status_led
    \/ \E color \in Colors : set_status_led(color)

OtherCalls ==
    \/ get_name
    \/ get_presence
    \/ get_status
    \/ get_base_mac
    \/ get_model
    \/ get_serial
    \/ get_revision
    \/ get_system_eeprom_info
    \/ get_position_in_parent
    \/ is_replaceable
    \/ initizalize_system_led
    \/ \E index \in CageIndices : get_port_or_cage_type(index)

Next ==
    \/ SfpCalls
    \/ RebootCalls
    \/ LedCalls
    \/ OtherCalls

\* any sequence of public calls
Spec == Init /\ [][Next]_vars

(* ------------------------------ claims --------------------------------- *)
\* a reboot-cause file yields a cause when it can be read and holds a text
\* other than the empty one and the "Unknown" the method takes for no cause
Yields(file) == file.mode # "missing" /\ file.data \notin { "", "Unknown" }
CurFile == arg[reboot_cause_path(is_host)]
PrevFile == arg[prev_reboot_cause_path(is_host)]

\* C1: get_sfp(index) with an integer index outside 1..NUM_PORT, 0 and the
\* negative ones included, returns None and writes the out-of-range report
\* for that index to standard error.
C1_OutOfRangeYieldsNone ==
    (op = "get_sfp" /\ arg \notin 1..NUM_PORT) =>
        /\ ret = None
        /\ stderr = << OutOfRangeMsg(arg, _sfp_list) >>

\* C2: for 1 <= i <= NUM_PORT, get_sfp(i) returns the i-th transceiver that
\* __initialize_sfp appended, the one made with index i-1; it writes nothing
\* to standard error; no other valid index returns that transceiver.
C2_ValidIndexReturnsItsSfp ==
    (op = "get_sfp" /\ arg \in 1..NUM_PORT) =>
        /\ ret.type = "Sfp"
        /\ ret.val = _sfp_list[arg]
        /\ ret.val.index = arg - 1
        /\ stderr = <<>>
        /\ \A j \in (1..NUM_PORT) \ {arg} : _sfp_list[j] # ret.val

C2_Witness ==
    /\ op = "get_sfp" /\ arg = NUM_PORT
    /\ ret.type = "Sfp" /\ ret.val.index = NUM_PORT - 1
    /\ stderr = <<>>

\* C3: get_reboot_cause never raises, whatever the two files are (holding a
\* text, empty, missing): it returns a pair, and when both files are missing
\* the description is "Unknown".
C3_RebootCauseNeverRaises ==
    op = "get_reboot_cause" =>
        /\ ret.type = "tuple"
        /\ Len(ret.val) = 2
        /\ (CurFile.mode = "missing" /\ PrevFile.mode = "missing") => ret.val[2] = Str("Unknown")

C3_Witness ==
    /\ op = "get_reboot_cause"
    /\ CurFile.mode = "missing" /\ PrevFile.mode = "missing"
    /\ ret.type = "tuple" /\ ret.val[2] = Str("Unknown")

\* C4: in every state after construction and after any sequence of public
\* calls there are exactly NUM_PORT transceivers, NUM_PSU PSUs, NUM_THERMAL
\* thermals, NUM_COMPONENT components and NUM_FAN_TRAY fan drawers.
C4_FixedLengths ==
    /\ Len(_sfp_list) = NUM_PORT
    /\ Len(_psu_list) = NUM_PSU
    /\ Len(_thermal_list) = NUM_THERMAL
    /\ Len(_component_list) = NUM_COMPONENT
    /\ Len(_fan_drawer_list) = NUM_FAN_TRAY

\* a get_sfp that comes after a set_status_led that wrote the node
C4_Witness ==
    /\ op = "get_sfp" /\ ret.type = "Sfp"
    /\ led_set # ""
    /\ Len(_sfp_list) = NUM_PORT /\ Len(_fan_drawer_list) = NUM_FAN_TRAY

\* C5: get_status_led returns STATUS_LED_COLOR_OFF for the raw content "0",
\* STATUS_LED_COLOR_RED for "10" and "UNKNOWN" for every other content and
\* for a node that cannot be read; it does not raise and does not write.
C5_StatusLedMapping ==
    [][ op' = "get_status_led" =>
            /\ ret' = Str(IF sysled.mode # "missing" /\ sysled.data = "0"
                          THEN "STATUS_LED_COLOR_OFF"
                          ELSE IF sysled.mode # "missing" /\ sysled.data = "10"
                          THEN "STATUS_LED_COLOR_RED"
                          ELSE "UNKNOWN")
            /\ sysled' = sysled
            /\ writes' = <<>> ]_vars

C5_Witness ==
    /\ op = "get_status_led"
    /\ sysled.mode = "missing"
    /\ ret = Str("UNKNOWN")

\* C6: the first element of the pair get_reboot_cause returns is one of the
\* predefined reboot-cause constants, for every content of the two files.
C6_CauseIsPredefined ==
    op = "get_reboot_cause" =>
        /\ ret.type = "tuple"
        /\ ret.val[1].type = "str"
        /\ ret.val[1].val \in REBOOT_CAUSES

C6_Witness ==
    /\ op = "get_reboot_cause"
    /\ Yields(CurFile)
    /\ ret.type = "tuple" /\ ret.val[1] = Str(REBOOT_CAUSE_NON_HARDWARE)

\* C7: get_reboot_cause reads both files in the directory is_host selects; if
\* the current file yields a cause the description is its content; otherwise,
\* if the previous file yields a cause the description is that file's
\* content; and the previous-file arm is left out exactly when neither file
\* yields a cause.
C7_RebootCauseResolution ==
    op = "get_reboot_cause" =>
        /\ ret.type = "tuple"
        /\ Yields(CurFile) => (ret.val[2] = Str(CurFile.data) /\ branch = "if")
        /\ (~Yields(CurFile) /\ Yields(PrevFile)) =>
               (ret.val[2] = Str(PrevFile.data) /\ branch = "elif")
        /\ (~Yields(CurFile) /\ ~Yields(PrevFile)) => branch # "elif"

\* C8: sfp_module_initialized is true in every state after construction, the
\* notifier is the one made by the constructor, on the list get_sfp
\* subscripts, and it is the one get_change_event asks.
C8_SfpInitialisedOnce ==
    /\ sfp_module_initialized = TRUE
    /\ _sfpevent = Obj("SfpEvent", SfpEvent("self._sfp_list", 1))
    /\ op = "get_change_event" => ret.val[2].notifier = 1

\* a get_change_event that comes after a set_status_led that wrote the node
C8_Witness ==
    /\ op = "get_change_event"
    /\ ret.val[2].notifier = 1
    /\ led_set # ""
    /\ sfp_module_initialized

\* C9: set_status_led with a colour other than the two of SYSLED_MODES
\* returns False and issues no write, the node is as before; with one of the
\* two it issues exactly one write of the colour's raw key to the node and
\* returns what the write helper returned.
C9_SetStatusLedFrame ==
    [][ op' = "set_status_led" =>
            IF arg' \notin { "STATUS_LED_COLOR_OFF", "STATUS_LED_COLOR_RED" }
            THEN /\ ret' = Bool(FALSE)
                 /\ sysled' = sysled
                 /\ writes' = <<>>
            ELSE LET key == IF arg' = "STATUS_LED_COLOR_OFF" THEN "0" ELSE "10"
                 IN  /\ writes' = << << SYSLED_FNODE, key >> >>
                     /\ ret' = Bool(write_txt_file(sysled, key).ok)
                     /\ sysled' = write_txt_file(sysled, key).file ]_vars

C9_Witness ==
    /\ op = "set_status_led" /\ arg = "STATUS_LED_COLOR_RED"
    /\ ret = Bool(TRUE)
    /\ writes = << << SYSLED_FNODE, "10" >> >>
    /\ sysled.data = "10"

\* C10: once a set_status_led(c) has returned True, every get_status_led
\* returns c, until another set_status_led returns True; a set_status_led
\* that is rejected or fails in between changes nothing of that.
C10_LedRoundTrip ==
    (op = "get_status_led" /\ led_set # "") => ret = Str(led_set)

C10_Witness ==
    /\ op = "get_status_led"
    /\ led_set = "STATUS_LED_COLOR_RED"
    /\ ret = Str("STATUS_LED_COLOR_RED")

====
